---- MODULE Spec2Model ----
(***************************************************************************)
(* A model of SceneManager (Source/SceneManager.cpp): the texture-slot     *)
(* table, the material list, and the OpenGL state the class drives.        *)
(*                                                                         *)
(* Floating-point material coefficients are written in thousandths.        *)
(* glGenTextures hands out the names 1, 2, 3, ... in order.                *)
(* A write to m_textureIDs[i] with i >= 16 is undefined behaviour; it is   *)
(* modelled as a choice between the process dying and the write landing in *)
(* the memory that follows the array (the overrun region of the table),    *)
(* from where the lookups and the bind loop read it back.                  *)
(* SetupSceneLights is kept as the bUseLighting flag and the set of        *)
(* lightSources[] indices it pushes.                                       *)
(* The shader program is the map `uniforms' from uniform names to the      *)
(* values last written; bool values are the ints 0 and 1 setIntValue gets. *)
(* The model matrix is computed exactly, on integer vectors and angles     *)
(* that are multiples of 90 degrees.                                       *)
(***************************************************************************)
EXTENDS Integers, Sequences, FiniteSets, TLC

VARIABLES
    m_textureIDs,       \* index -> [tag, ID]; indices >= Capacity are the overrun region
    m_loadedTextures,   \* next free slot
    m_objectMaterials,  \* sequence of OBJECT_MATERIAL
    glTextures,         \* texture names handed out by glGenTextures: name -> storage format
    glUnits,            \* texture unit -> name bound to GL_TEXTURE_2D (0 = none)
    glActive,           \* the active texture unit
    imageBuffers,       \* decoded image buffers not yet released with stbi_image_free
    meshCalls,          \* calls made on the ShapeMeshes collaborator, in order
    bUseLighting,       \* shader uniform "bUseLighting"
    lightSources,       \* indices of the lightSources[] uniforms pushed
    crashed,            \* the process died on an out-of-bounds write
    maxWrite,           \* highest table index a slot write was aimed at (-1: none)
    nSuccess,           \* number of CreateGLTexture calls that returned true
    nDirect,            \* number of direct CreateGLTexture calls so far
    last,               \* the most recent call: operation, arguments, result
    m_pShaderManager,   \* "valid" or "null"
    uniforms,           \* uniform name -> value last written to the shader program
    surface,            \* which of SetShaderColor / SetShaderTexture ran last
    destroyed           \* the destructor has run

sceneVars == <<m_pShaderManager, uniforms, surface, destroyed>>

vars == <<m_textureIDs, m_loadedTextures, m_objectMaterials, glTextures, glUnits,
          glActive, imageBuffers, meshCalls, bUseLighting, lightSources, crashed,
          maxWrite, nSuccess, nDirect, last, m_pShaderManager, uniforms, surface,
          destroyed>>

(*************************** program constants *****************************)
Capacity == 16
NotFound == 0 - 1
PlaceholderTag == "/0"

(******************************* bounds ************************************)
MaxOverrun == 1     \* slots of memory past the table that the model follows
MaxOdd == 3         \* the first MaxOdd authored files may fail to decode to 3 channels
MaxDirect == 2      \* direct CreateGLTexture calls
MaxMaterials == 3   \* direct material registrations

Slots == 0 .. (Capacity + MaxOverrun - 1)

(* stbi_load outcomes: 0 = NULL (missing or undecodable file), else channels *)
Channels == 0 .. 4

(* what an authored file decodes to when it is not the 3-channel image expected *)
OddDecodes == {0, 2}

(* outcomes of the out-of-bounds slot write, when a call makes one *)
UBOutcomes(overflows) == IF overflows THEN {"crash", "stored"} ELSE {"none"}

(* the authored list with one tag typed twice *)
SceneTextures_Duplicate ==
    << "ground", "fabric02", "Onyx1", "wood", "keyboard", "laptop", "matrix",
       "mousepad", "black_metal", "stainless", "mouse1", "glass", "wax",
       "wax", "cap2", "pepper", "salt1" >>

(* the (file, tag) pairs of LoadSceneTextures, in authored order *)
SceneTextures ==
    << "ground", "fabric02", "Onyx1", "wood", "keyboard", "laptop", "matrix",
       "mousepad", "black_metal", "stainless", "mouse1", "glass", "wax",
       "flame", "cap2", "pepper", "salt1" >>

DirectTags == {"ground", "extra"}

QueryTags == {SceneTextures[i] : i \in 1..Len(SceneTextures)}
             \cup DirectTags \cup {PlaceholderTag, "unregistered-tag"}

(***************************** texture lookup ******************************)
(* the scan bounded by the size of the table instead of the filled count *)
RECURSIVE TextureScan_WholeTable(_, _, _, _)
TextureScan_WholeTable(tab, n, index, tag) ==
    IF index < Capacity /\ index \in DOMAIN tab
    THEN IF tab[index].tag = tag THEN index
         ELSE TextureScan_WholeTable(tab, n, index + 1, tag)
    ELSE NotFound

(* a scan that does not stop at a match and so returns the last one *)
RECURSIVE TextureScan_LastMatch(_, _, _, _)
TextureScan_LastMatch(tab, n, index, tag) ==
    IF index < n /\ index \in DOMAIN tab
    THEN LET later == TextureScan_LastMatch(tab, n, index + 1, tag)
         IN  IF later # NotFound THEN later
             ELSE IF tab[index].tag = tag THEN index ELSE NotFound
    ELSE NotFound

(* the loop of FindTextureSlot, from index on *)
RECURSIVE TextureScan(_, _, _, _)
TextureScan(tab, n, index, tag) ==
    IF index < n /\ index \in DOMAIN tab
    THEN IF tab[index].tag = tag THEN index
         ELSE TextureScan(tab, n, index + 1, tag)
    ELSE NotFound

FindTextureSlotIn(tab, n, tag) == TextureScan(tab, n, 0, tag)

(* a handle scan that does not stop at a match and so returns the last one *)
RECURSIVE TextureIDScan_LastMatch(_, _, _, _)
TextureIDScan_LastMatch(tab, n, index, tag) ==
    IF index < n /\ index \in DOMAIN tab
    THEN LET later == TextureIDScan_LastMatch(tab, n, index + 1, tag)
         IN  IF later # NotFound THEN later
             ELSE IF tab[index].tag = tag THEN tab[index].ID ELSE NotFound
    ELSE NotFound

(* the loop of FindTextureID, from index on *)
RECURSIVE TextureIDScan(_, _, _, _)
TextureIDScan(tab, n, index, tag) ==
    IF index < n /\ index \in DOMAIN tab
    THEN IF tab[index].tag = tag THEN tab[index].ID
         ELSE TextureIDScan(tab, n, index + 1, tag)
    ELSE NotFound

FindTextureIDIn(tab, n, tag) == TextureIDScan(tab, n, 0, tag)

FindTextureSlot(tag) == FindTextureSlotIn(m_textureIDs, m_loadedTextures, tag)
FindTextureID(tag) == FindTextureIDIn(m_textureIDs, m_loadedTextures, tag)

(************************** texture registration ***************************)
(* The registry and GL state a CreateGLTexture call works on, as a record. *)
TexState ==
    [tab |-> m_textureIDs, n |-> m_loadedTextures, tex |-> glTextures,
     units |-> glUnits, active |-> glActive, images |-> imageBuffers,
     crashed |-> crashed, maxWrite |-> maxWrite, nSuccess |-> nSuccess,
     ret |-> FALSE]

Max(a, b) == IF a > b THEN a ELSE b

(* the slot write without the increment of m_loadedTextures *)
RegisterSlot_NoIncrement(s, textureID, tag, ub) ==
    IF s.n < Capacity
    THEN [s EXCEPT !.tab[s.n] = [tag |-> tag, ID |-> textureID],
                   !.maxWrite = Max(s.maxWrite, s.n),
                   !.nSuccess = s.nSuccess + 1,
                   !.ret = TRUE]
    ELSE [s EXCEPT !.crashed = TRUE, !.ret = FALSE]

(* Lines 127-130: the slot write and the counter increment. *)
RegisterSlot(s, textureID, tag, ub) ==
    IF s.n < Capacity
    THEN [s EXCEPT !.tab[s.n] = [tag |-> tag, ID |-> textureID],
                   !.n = s.n + 1,
                   !.maxWrite = Max(s.maxWrite, s.n),
                   !.nSuccess = s.nSuccess + 1,
                   !.ret = TRUE]
    ELSE IF ub = "crash"
    THEN [s EXCEPT !.crashed = TRUE, !.maxWrite = Max(s.maxWrite, s.n),
                   !.ret = FALSE]
    ELSE [s EXCEPT !.tab[s.n] = [tag |-> tag, ID |-> textureID],
                   !.n = s.n + 1,
                   !.maxWrite = Max(s.maxWrite, s.n),
                   !.nSuccess = s.nSuccess + 1,
                   !.ret = TRUE]

(* CreateGLTexture without the branch that rejects other channel counts *)
CreateGLTextureOn_AnyChannels(s, ch, tag, ub) ==
    IF s.crashed THEN s
    ELSE IF ch = 0 THEN [s EXCEPT !.ret = FALSE]
    ELSE
      LET textureID == Len(s.tex) + 1
          up == [s EXCEPT !.tex = Append(s.tex, IF ch = 3 THEN "RGB8" ELSE "RGBA8")]
      IN  IF s.n < Capacity
          THEN [up EXCEPT !.tab[s.n] = [tag |-> tag, ID |-> textureID],
                          !.n = s.n + 1,
                          !.maxWrite = Max(s.maxWrite, s.n),
                          !.nSuccess = s.nSuccess + 1,
                          !.ret = TRUE]
          ELSE [up EXCEPT !.crashed = TRUE]

(* One call of CreateGLTexture on state s: ch is what stbi_load produced. *)
CreateGLTextureOn(s, ch, tag, ub) ==
    IF s.crashed THEN s
    ELSE IF ch = 0 THEN [s EXCEPT !.ret = FALSE]
    ELSE
      LET textureID == Len(s.tex) + 1
          gen == [s EXCEPT !.images = s.images + 1,
                           !.tex = Append(s.tex, "none"),
                           !.units[s.active] = textureID]
      IN  IF ch \notin {3, 4} THEN [gen EXCEPT !.ret = FALSE]
          ELSE
            LET up == [gen EXCEPT
                         !.tex[textureID] = IF ch = 3 THEN "RGB8" ELSE "RGBA8",
                         !.images = gen.images - 1,
                         !.units[gen.active] = 0]
            IN  RegisterSlot(up, textureID, tag, ub)

(* the bind loop without glActiveTexture: every bind lands on the active unit *)
RECURSIVE BindFrom_OneUnit(_, _)
BindFrom_OneUnit(s, i) ==
    IF i < s.n /\ i \in DOMAIN s.tab
    THEN BindFrom_OneUnit([s EXCEPT !.units[s.active] = s.tab[i].ID], i + 1)
    ELSE s

(* BindGLTextures: unit i gets the handle of slot i, for i < m_loadedTextures *)
RECURSIVE BindFrom(_, _)
BindFrom(s, i) ==
    IF i < s.n /\ i \in DOMAIN s.tab
    THEN BindFrom([s EXCEPT !.active = i, !.units[i] = s.tab[i].ID], i + 1)
    ELSE s

BindGLTexturesOn(s) == IF s.crashed THEN s ELSE BindFrom(s, 0)

(* a loader that gives up at the first file that fails *)
RECURSIVE LoadFrom_StopAtFailure(_, _, _, _)
LoadFrom_StopAtFailure(s, k, dec, ub) ==
    IF k > Len(SceneTextures) THEN s
    ELSE LET t == CreateGLTextureOn(s, dec[k], SceneTextures[k], ub)
         IN  IF t.ret THEN LoadFrom_StopAtFailure(t, k + 1, dec, ub) ELSE t

(* DestroyGLTextures: glGenTextures(1, &m_textureIDs[i].ID) for every filled
   slot: a fresh name is generated into the slot; no name is deleted, so no
   entry of the texture store ever becomes "deleted". *)
RECURSIVE DestroyFrom(_, _)
DestroyFrom(s, i) ==
    IF i < s.n /\ i \in DOMAIN s.tab
    THEN DestroyFrom([s EXCEPT !.tex = Append(s.tex, "none"),
                              !.tab[i].ID = Len(s.tex) + 1], i + 1)
    ELSE s

DestroyGLTexturesOn(s) == IF s.crashed THEN s ELSE DestroyFrom(s, 0)

(* LoadSceneTextures: the authored calls in order, then BindGLTextures. *)
RECURSIVE LoadFrom(_, _, _, _)
LoadFrom(s, k, dec, ub) ==
    IF k > Len(SceneTextures) THEN s
    ELSE LoadFrom(CreateGLTextureOn(s, dec[k], SceneTextures[k], ub), k + 1, dec, ub)

LoadSceneTexturesOn(s, dec, ub) == BindGLTexturesOn(LoadFrom(s, 1, dec, ub))

(* decode outcomes of the authored files: 3 channels, but any of the first k
   files may be missing or have an unsupported channel count *)
RECURSIVE DecodeVectors(_, _)
DecodeVectors(len, k) ==
    IF len = 0 THEN {<<>>}
    ELSE {Append(v, c) : v \in DecodeVectors(len - 1, k),
                         c \in IF len <= k THEN OddDecodes \cup {3} ELSE {3}}

SceneDecodes == DecodeVectors(Len(SceneTextures), MaxOdd)

Successes(dec) == Cardinality({k \in DOMAIN dec : dec[k] \in {3, 4}})

(******************************* materials *********************************)
Material(tag, ac, as, dc, sc, sh) ==
    [tag |-> tag, ambientColor |-> ac, ambientStrength |-> as,
     diffuseColor |-> dc, specularColor |-> sc, shininess |-> sh]

SceneMaterials ==
    << Material("ground1", <<50, 30, 20>>, 200, <<450, 300, 200>>, <<200, 200, 200>>, 3000),
       Material("wood1", <<50, 30, 20>>, 200, <<450, 300, 200>>, <<200, 200, 200>>, 3000),
       Material("glass1", <<50, 50, 50>>, 100, <<100, 100, 150>>, <<400, 400, 400>>, 4000),
       Material("fabric03", <<50, 50, 50>>, 200, <<600, 400, 300>>, <<100, 100, 100>>, 100),
       Material("Onyx2", <<50, 50, 50>>, 200, <<200, 200, 200>>, <<300, 300, 300>>, 4200),
       Material("laptop1", <<50, 50, 50>>, 200, <<300, 300, 300>>, <<400, 400, 400>>, 4000),
       Material("black_metal1", <<50, 50, 50>>, 200, <<200, 200, 200>>, <<500, 500, 500>>, 900),
       Material("stainless_end1", <<100, 100, 100>>, 200, <<700, 700, 700>>, <<900, 900, 900>>, 40000),
       Material("mouse2", <<50, 50, 50>>, 200, <<300, 300, 300>>, <<400, 400, 400>>, 6000),
       Material("wax1", <<100, 100, 100>>, 200, <<900, 850, 800>>, <<300, 300, 300>>, 7000),
       Material("cap3", <<100, 100, 100>>, 200, <<800, 800, 800>>, <<900, 900, 900>>, 1000),
       Material("keyboard1", <<50, 50, 50>>, 200, <<200, 200, 200>>, <<300, 300, 300>>, 200),
       Material("Matrix1", <<10, 50, 10>>, 100, <<0, 200, 0>>, <<10, 20, 10>>, 4000),
       Material("mousepad1", <<50, 50, 50>>, 200, <<300, 300, 300>>, <<100, 100, 100>>, 300),
       Material("flame1", <<100, 50, 20>>, 300, <<1000, 500, 200>>, <<900, 600, 300>>, 3000),
       Material("salt2", <<100, 100, 100>>, 200, <<100, 100, 100>>, <<300, 300, 300>>, 0),
       Material("pepper1", <<50, 50, 50>>, 200, <<200, 150, 100>>, <<200, 200, 200>>, 1000) >>

DefineObjectMaterialsOn(mats) == mats \o SceneMaterials

(* a scan that keeps going and so returns the last match *)
RECURSIVE MaterialScan_LastMatch(_, _, _)
MaterialScan_LastMatch(mats, index, tag) ==
    IF index <= Len(mats)
    THEN LET later == MaterialScan_LastMatch(mats, index + 1, tag)
         IN  IF later # 0 THEN later
             ELSE IF mats[index].tag = tag THEN index ELSE 0
    ELSE 0

(* FindMaterial(tag, material): the bool it returns and the caller's record *)
RECURSIVE MaterialScan(_, _, _)
MaterialScan(mats, index, tag) ==
    IF index <= Len(mats)
    THEN IF mats[index].tag = tag THEN index
         ELSE MaterialScan(mats, index + 1, tag)
    ELSE 0

(* a FindMaterial that clears the caller's record when no tag matches *)
FindMaterialIn_ClearsOnMiss(mats, tag, material) ==
    IF Len(mats) = 0 THEN [ret |-> FALSE, material |-> material]
    ELSE LET index == MaterialScan(mats, 1, tag)
         IN  IF index = 0
             THEN [ret |-> TRUE,
                   material |-> [material EXCEPT
                       !.ambientColor = <<0, 0, 0>>,
                       !.ambientStrength = 0,
                       !.diffuseColor = <<0, 0, 0>>,
                       !.specularColor = <<0, 0, 0>>,
                       !.shininess = 0]]
             ELSE [ret |-> TRUE,
                   material |-> [material EXCEPT
                       !.ambientColor = mats[index].ambientColor,
                       !.ambientStrength = mats[index].ambientStrength,
                       !.diffuseColor = mats[index].diffuseColor,
                       !.specularColor = mats[index].specularColor,
                       !.shininess = mats[index].shininess]]

(* FindMaterial returning bFound instead of true *)
FindMaterialIn_ReturnsFound(mats, tag, material) ==
    IF Len(mats) = 0 THEN [ret |-> FALSE, material |-> material]
    ELSE LET index == MaterialScan(mats, 1, tag)
         IN  IF index = 0 THEN [ret |-> FALSE, material |-> material]
             ELSE [ret |-> TRUE,
                   material |-> [material EXCEPT
                       !.ambientColor = mats[index].ambientColor,
                       !.ambientStrength = mats[index].ambientStrength,
                       !.diffuseColor = mats[index].diffuseColor,
                       !.specularColor = mats[index].specularColor,
                       !.shininess = mats[index].shininess]]

FindMaterialIn(mats, tag, material) ==
    IF Len(mats) = 0 THEN [ret |-> FALSE, material |-> material]
    ELSE LET index == MaterialScan(mats, 1, tag)
         IN  IF index = 0 THEN [ret |-> TRUE, material |-> material]
             ELSE [ret |-> TRUE,
                   material |-> [material EXCEPT
                       !.ambientColor = mats[index].ambientColor,
                       !.ambientStrength = mats[index].ambientStrength,
                       !.diffuseColor = mats[index].diffuseColor,
                       !.specularColor = mats[index].specularColor,
                       !.shininess = mats[index].shininess]]

(************************** the model matrix *******************************)
(* A mat4 is written as its four rows.  Angles are whole degrees that are
   multiples of 90, for which cos and sin are taken as exactly 0, 1 or -1;
   vectors have integer entries. *)
CosDeg(d) == CASE d % 360 = 0 -> 1 [] d % 360 = 180 -> 0 - 1 [] OTHER -> 0
(* a sine of the opposite sign: a rotation that turns the other way *)
SinDeg_Clockwise(d) == CASE d % 360 = 90 -> 0 - 1 [] d % 360 = 270 -> 1 [] OTHER -> 0

SinDeg(d) == CASE d % 360 = 90 -> 1 [] d % 360 = 270 -> 0 - 1 [] OTHER -> 0

Identity4 == << <<1, 0, 0, 0>>, <<0, 1, 0, 0>>, <<0, 0, 1, 0>>, <<0, 0, 0, 1>> >>

Dot4(a, b, i, j) ==
    a[i][1] * b[1][j] + a[i][2] * b[2][j] + a[i][3] * b[3][j] + a[i][4] * b[4][j]

MatRow(a, b, i) == << Dot4(a, b, i, 1), Dot4(a, b, i, 2), Dot4(a, b, i, 3), Dot4(a, b, i, 4) >>

(* operator* of two mat4 *)
MatMul(a, b) == << MatRow(a, b, 1), MatRow(a, b, 2), MatRow(a, b, 3), MatRow(a, b, 4) >>

(* glm::scale(v) *)
glmScale(v) ==
    << <<v[1], 0, 0, 0>>, <<0, v[2], 0, 0>>, <<0, 0, v[3], 0>>, <<0, 0, 0, 1>> >>

(* glm::translate(v) *)
glmTranslate(v) ==
    << <<1, 0, 0, v[1]>>, <<0, 1, 0, v[2]>>, <<0, 0, 1, v[3]>>, <<0, 0, 0, 1>> >>

(* a rotation built with sine and cosine exchanged *)
glmRotate_SineForCosine(degrees, axis) ==
    LET c == SinDeg(degrees)
        s == CosDeg(degrees)
        t == << (1 - c) * axis[1], (1 - c) * axis[2], (1 - c) * axis[3] >>
    IN  << << c + t[1] * axis[1], t[2] * axis[1] - s * axis[3],
              t[3] * axis[1] + s * axis[2], 0 >>,
           << t[1] * axis[2] + s * axis[3], c + t[2] * axis[2],
              t[3] * axis[2] - s * axis[1], 0 >>,
           << t[1] * axis[3] - s * axis[2], t[2] * axis[3] + s * axis[1],
              c + t[3] * axis[3], 0 >>,
           << 0, 0, 0, 1 >> >>

(* glm::rotate(glm::radians(degrees), axis) for a unit axis *)
glmRotate(degrees, axis) ==
    LET c == CosDeg(degrees)
        s == SinDeg(degrees)
        t == << (1 - c) * axis[1], (1 - c) * axis[2], (1 - c) * axis[3] >>
    IN  << << c + t[1] * axis[1], t[2] * axis[1] - s * axis[3],
              t[3] * axis[1] + s * axis[2], 0 >>,
           << t[1] * axis[2] + s * axis[3], c + t[2] * axis[2],
              t[3] * axis[2] - s * axis[1], 0 >>,
           << t[1] * axis[3] - s * axis[2], t[2] * axis[3] + s * axis[1],
              c + t[3] * axis[3], 0 >>,
           << 0, 0, 0, 1 >> >>

(* the product taken in the opposite order *)
ModelView_ScaleOutermost(scaleXYZ, XrotationDegrees, YrotationDegrees, ZrotationDegrees, positionXYZ) ==
    LET scale == glmScale(scaleXYZ)
        rotationX == glmRotate(XrotationDegrees, <<1, 0, 0>>)
        rotationY == glmRotate(YrotationDegrees, <<0, 1, 0>>)
        rotationZ == glmRotate(ZrotationDegrees, <<0, 0, 1>>)
        translation == glmTranslate(positionXYZ)
    IN  MatMul(MatMul(MatMul(MatMul(scale, rotationZ), rotationY), rotationX),
               translation)

(* lines 280-288: modelView = translation * rotationX * rotationY * rotationZ * scale *)
ModelView(scaleXYZ, XrotationDegrees, YrotationDegrees, ZrotationDegrees, positionXYZ) ==
    LET scale == glmScale(scaleXYZ)
        rotationX == glmRotate(XrotationDegrees, <<1, 0, 0>>)
        rotationY == glmRotate(YrotationDegrees, <<0, 1, 0>>)
        rotationZ == glmRotate(ZrotationDegrees, <<0, 0, 1>>)
        translation == glmTranslate(positionXYZ)
    IN  MatMul(MatMul(MatMul(MatMul(translation, rotationX), rotationY), rotationZ),
               scale)

(***************************** shader uniforms *****************************)
(* The object, the shader program's uniforms and the mesh library as the
   setters and RenderScene see them, as a record: `writes' logs the uniform
   writes of the running call, `calls' the member calls RenderScene makes. *)
SceneState ==
    [shader |-> m_pShaderManager, uniforms |-> uniforms, surface |-> surface,
     tab |-> m_textureIDs, n |-> m_loadedTextures, mats |-> m_objectMaterials,
     meshCalls |-> meshCalls, crashed |-> crashed,
     writes |-> <<>>, calls |-> <<>>, nullCalls |-> 0]

(* m_pShaderManager->set...Value(name, value) *)
SetUniform(g, name, value) ==
    [g EXCEPT !.uniforms = (name :> value) @@ g.uniforms,
              !.writes = Append(@, <<name, value>>)]

(* lines 290-293: the model matrix goes to the uniform "model" *)
PushModel(g, modelView) ==
    IF g.shader # "null" THEN SetUniform(g, "model", modelView) ELSE g

SetTransformationsOn(g, scaleXYZ, XrotationDegrees, YrotationDegrees, ZrotationDegrees, positionXYZ) ==
    PushModel(g, ModelView(scaleXYZ, XrotationDegrees, YrotationDegrees,
                           ZrotationDegrees, positionXYZ))

(* a SetShaderColor that pushes the color and leaves the flag as it was *)
SetShaderColorOn_LeavesFlag(g, color) ==
    IF g.shader # "null"
    THEN [SetUniform(g, "objectColor", color) EXCEPT !.surface = "color"]
    ELSE g

(* SetShaderColor: bUseTexture = false, then the color *)
SetShaderColorOn(g, color) ==
    IF g.shader # "null"
    THEN [SetUniform(SetUniform(g, "bUseTexture", 0), "objectColor", color)
            EXCEPT !.surface = "color"]
    ELSE g

(* a SetShaderTexture that pushes the GL texture name instead of the slot *)
SetShaderTextureOn_PushesHandle(g, textureTag) ==
    IF g.shader # "null"
    THEN [SetUniform(SetUniform(g, "bUseTexture", 1), "objectTexture",
                     FindTextureIDIn(g.tab, g.n, textureTag))
            EXCEPT !.surface = "texture"]
    ELSE g

(* SetShaderTexture: bUseTexture = true, then the slot of the tag as sampler *)
SetShaderTextureOn(g, textureTag) ==
    IF g.shader # "null"
    THEN [SetUniform(SetUniform(g, "bUseTexture", 1), "objectTexture",
                     FindTextureSlotIn(g.tab, g.n, textureTag))
            EXCEPT !.surface = "texture"]
    ELSE g

SetTextureUVScaleOn(g, u, v) ==
    IF g.shader # "null" THEN SetUniform(g, "UVscale", <<u, v>>) ELSE g

(* outcomes of calling through m_pShaderManager when it is NULL *)
NullOutcomes(g) ==
    IF g.shader = "null" /\ Len(g.mats) > 0 THEN {"crash", "ignored"} ELSE {"none"}

(* a SetShaderMaterial that leaves out the shininess *)
SetShaderMaterialOn_FourWrites(g, materialTag, material, ub) ==
    IF Len(g.mats) > 0
    THEN LET r == FindMaterialIn(g.mats, materialTag, material)
         IN  IF r.ret
             THEN SetUniform(SetUniform(SetUniform(SetUniform(g,
                      "material.ambientColor", r.material.ambientColor),
                      "material.ambientStrength", r.material.ambientStrength),
                      "material.diffuseColor", r.material.diffuseColor),
                      "material.specularColor", r.material.specularColor)
             ELSE g
    ELSE g

(* SetShaderMaterial: `material' is what the uninitialised local holds; the
   calls through m_pShaderManager are not guarded against NULL (ub says what
   such a call does: the process dies at the first, or all five go through a
   null `this' and write nothing the model follows). *)
SetShaderMaterialOn(g, materialTag, material, ub) ==
    IF Len(g.mats) > 0
    THEN LET r == FindMaterialIn(g.mats, materialTag, material)
         IN  IF r.ret
             THEN IF g.shader = "null"
                  THEN [g EXCEPT !.crashed = (ub = "crash"),
                                 !.nullCalls = IF ub = "crash" THEN 1 ELSE 5]
                  ELSE SetUniform(SetUniform(SetUniform(SetUniform(SetUniform(g,
                      "material.ambientColor", r.material.ambientColor),
                      "material.ambientStrength", r.material.ambientStrength),
                      "material.diffuseColor", r.material.diffuseColor),
                      "material.specularColor", r.material.specularColor),
                      "material.shininess", r.material.shininess)
             ELSE g
    ELSE g

(* what the uninitialised local of SetShaderMaterial may hold: nothing the
   program wrote, or the record a previous call left on the stack *)
StaleMaterials ==
    {Material("", NotFound, NotFound, NotFound, NotFound, NotFound),
     SceneMaterials[1]}

(* the local is read only when the list is non-empty and the tag is absent *)
LocalMaterials(mats, tags) ==
    IF Len(mats) > 0 /\ \E t \in tags : MaterialScan(mats, 1, t) = 0
    THEN StaleMaterials
    ELSE {Material("", NotFound, NotFound, NotFound, NotFound, NotFound)}

(***************************** RenderScene *********************************)
(* The calls in the body of RenderScene, in source order, each with the line
   it stands on.  UV scales are in thousandths; the arguments of
   SetTransformations (non-integer scales, angles and positions) are not
   kept: the matrix such a call pushes is named by its line. *)
RenderCalls ==
    << [line |-> 726, call |-> "SetTransformations"],
       [line |-> 730, call |-> "SetShaderTexture", tag |-> "ground"],
       [line |-> 731, call |-> "SetTextureUVScale", u |-> 5000, v |-> 5000],
       [line |-> 732, call |-> "SetShaderMaterial", tag |-> "ground1"],
       [line |-> 735, call |-> "DrawPlaneMesh"],
       [line |-> 747, call |-> "SetTransformations"],
       [line |-> 750, call |-> "SetShaderTexture", tag |-> "wood"],
       [line |-> 751, call |-> "SetTextureUVScale", u |-> 1000, v |-> 1000],
       [line |-> 752, call |-> "SetShaderMaterial", tag |-> "wood1"],
       [line |-> 756, call |-> "DrawBoxMesh"],
       [line |-> 768, call |-> "SetTransformations"],
       [line |-> 771, call |-> "SetShaderTexture", tag |-> "fabric02"],
       [line |-> 772, call |-> "SetTextureUVScale", u |-> 1000, v |-> 1000],
       [line |-> 773, call |-> "SetShaderMaterial", tag |-> "fabric03"],
       [line |-> 777, call |-> "DrawPlaneMesh"],
       [line |-> 789, call |-> "SetTransformations"],
       [line |-> 792, call |-> "SetShaderTexture", tag |-> "fabric02"],
       [line |-> 793, call |-> "SetTextureUVScale", u |-> 1000, v |-> 1000],
       [line |-> 794, call |-> "SetShaderMaterial", tag |-> "fabric03"],
       [line |-> 797, call |-> "DrawPlaneMesh"],
       [line |-> 809, call |-> "SetTransformations"],
       [line |-> 812, call |-> "SetShaderTexture", tag |-> "fabric02"],
       [line |-> 813, call |-> "SetTextureUVScale", u |-> 1000, v |-> 1000],
       [line |-> 814, call |-> "SetShaderMaterial", tag |-> "fabric03"],
       [line |-> 817, call |-> "DrawPlaneMesh"],
       [line |-> 830, call |-> "SetTransformations"],
       [line |-> 833, call |-> "SetShaderTexture", tag |-> "fabric02"],
       [line |-> 834, call |-> "SetTextureUVScale", u |-> 1000, v |-> 1000],
       [line |-> 835, call |-> "SetShaderMaterial", tag |-> "fabric03"],
       [line |-> 838, call |-> "DrawPlaneMesh"],
       [line |-> 848, call |-> "SetTransformations"],
       [line |-> 850, call |-> "SetShaderTexture", tag |-> "fabric02"],
       [line |-> 851, call |-> "SetTextureUVScale", u |-> 1000, v |-> 1000],
       [line |-> 852, call |-> "SetShaderMaterial", tag |-> "fabric03"],
       [line |-> 855, call |-> "DrawPlaneMesh"],
       [line |-> 863, call |-> "SetTransformations"],
       [line |-> 866, call |-> "SetShaderTexture", tag |-> "wood"],
       [line |-> 867, call |-> "SetTextureUVScale", u |-> 1000, v |-> 1000],
       [line |-> 868, call |-> "SetShaderMaterial", tag |-> "wood1"],
       [line |-> 870, call |-> "DrawCylinderMesh"],
       [line |-> 878, call |-> "SetTransformations"],
       [line |-> 880, call |-> "SetShaderTexture", tag |-> "wood"],
       [line |-> 881, call |-> "SetTextureUVScale", u |-> 1000, v |-> 1000],
       [line |-> 882, call |-> "SetShaderMaterial", tag |-> "wood1"],
       [line |-> 884, call |-> "DrawCylinderMesh"],
       [line |-> 892, call |-> "SetTransformations"],
       [line |-> 894, call |-> "SetShaderTexture", tag |-> "wood"],
       [line |-> 895, call |-> "SetTextureUVScale", u |-> 1000, v |-> 1000],
       [line |-> 896, call |-> "SetShaderMaterial", tag |-> "wood1"],
       [line |-> 898, call |-> "DrawCylinderMesh"],
       [line |-> 906, call |-> "SetTransformations"],
       [line |-> 908, call |-> "SetShaderTexture", tag |-> "wood"],
       [line |-> 909, call |-> "SetTextureUVScale", u |-> 1000, v |-> 1000],
       [line |-> 910, call |-> "SetShaderMaterial", tag |-> "wood1"],
       [line |-> 912, call |-> "DrawCylinderMesh"],
       [line |-> 924, call |-> "SetTransformations"],
       [line |-> 927, call |-> "SetShaderTexture", tag |-> "wood"],
       [line |-> 928, call |-> "SetTextureUVScale", u |-> 1000, v |-> 1000],
       [line |-> 929, call |-> "SetShaderMaterial", tag |-> "wood1"],
       [line |-> 932, call |-> "DrawBoxMesh"],
       [line |-> 944, call |-> "SetTransformations"],
       [line |-> 947, call |-> "SetShaderTexture", tag |-> "fabric02"],
       [line |-> 948, call |-> "SetTextureUVScale", u |-> 1000, v |-> 100000],
       [line |-> 949, call |-> "SetShaderMaterial", tag |-> "fabric03"],
       [line |-> 952, call |-> "DrawHalfSphereMesh"],
       [line |-> 964, call |-> "SetTransformations"],
       [line |-> 967, call |-> "SetShaderTexture", tag |-> "wood"],
       [line |-> 968, call |-> "SetTextureUVScale", u |-> 1000, v |-> 1000],
       [line |-> 969, call |-> "SetShaderMaterial", tag |-> "wood1"],
       [line |-> 972, call |-> "DrawBoxMesh"],
       [line |-> 984, call |-> "SetTransformations"],
       [line |-> 987, call |-> "SetShaderTexture", tag |-> "wood"],
       [line |-> 988, call |-> "SetTextureUVScale", u |-> 1000, v |-> 1000],
       [line |-> 989, call |-> "SetShaderMaterial", tag |-> "wood1"],
       [line |-> 992, call |-> "DrawCylinderMesh"],
       [line |-> 1005, call |-> "SetTransformations"],
       [line |-> 1008, call |-> "SetShaderTexture", tag |-> "wood"],
       [line |-> 1009, call |-> "SetTextureUVScale", u |-> 1000, v |-> 1000],
       [line |-> 1010, call |-> "SetShaderMaterial", tag |-> "wood1"],
       [line |-> 1013, call |-> "DrawCylinderMesh"],
       [line |-> 1026, call |-> "SetTransformations"],
       [line |-> 1029, call |-> "SetShaderTexture", tag |-> "wood"],
       [line |-> 1030, call |-> "SetTextureUVScale", u |-> 1000, v |-> 1000],
       [line |-> 1031, call |-> "SetShaderMaterial", tag |-> "wood1"],
       [line |-> 1034, call |-> "DrawCylinderMesh"],
       [line |-> 1047, call |-> "SetTransformations"],
       [line |-> 1050, call |-> "SetShaderTexture", tag |-> "wood"],
       [line |-> 1051, call |-> "SetTextureUVScale", u |-> 1000, v |-> 1000],
       [line |-> 1052, call |-> "SetShaderMaterial", tag |-> "wood1"],
       [line |-> 1055, call |-> "DrawCylinderMesh"],
       [line |-> 1064, call |-> "SetTransformations"],
       [line |-> 1067, call |-> "SetShaderTexture", tag |-> "Onyx1"],
       [line |-> 1068, call |-> "SetTextureUVScale", u |-> 5000, v |-> 5000],
       [line |-> 1069, call |-> "SetShaderMaterial", tag |-> "Onyx2"],
       [line |-> 1071, call |-> "DrawBoxMesh"],
       [line |-> 1079, call |-> "SetTransformations"],
       [line |-> 1082, call |-> "SetShaderTexture", tag |-> "keyboard"],
       [line |-> 1083, call |-> "SetTextureUVScale", u |-> 1000, v |-> 1000],
       [line |-> 1084, call |-> "SetShaderMaterial", tag |-> "keyboard1"],
       [line |-> 1086, call |-> "DrawBoxMesh"],
       [line |-> 1094, call |-> "SetTransformations"],
       [line |-> 1096, call |-> "SetShaderTexture", tag |-> "laptop"],
       [line |-> 1097, call |-> "SetTextureUVScale", u |-> 1000, v |-> 1000],
       [line |-> 1098, call |-> "SetShaderMaterial", tag |-> "laptop1"],
       [line |-> 1100, call |-> "DrawBoxMesh"],
       [line |-> 1108, call |-> "SetTransformations"],
       [line |-> 1110, call |-> "SetShaderTexture", tag |-> "matrix"],
       [line |-> 1111, call |-> "SetTextureUVScale", u |-> 1000, v |-> 1000],
       [line |-> 1114, call |-> "DrawBoxMesh"],
       [line |-> 1122, call |-> "SetTransformations"],
       [line |-> 1125, call |-> "SetShaderTexture", tag |-> "mousepad"],
       [line |-> 1126, call |-> "SetTextureUVScale", u |-> 1000, v |-> 1000],
       [line |-> 1127, call |-> "SetShaderMaterial", tag |-> "mousepad1"],
       [line |-> 1129, call |-> "DrawBoxMesh"],
       [line |-> 1140, call |-> "SetTransformations"],
       [line |-> 1142, call |-> "SetShaderTexture", tag |-> "mouse1"],
       [line |-> 1143, call |-> "SetTextureUVScale", u |-> 1000, v |-> 600],
       [line |-> 1144, call |-> "SetShaderMaterial", tag |-> "mouse2"],
       [line |-> 1146, call |-> "DrawSphereMesh"],
       [line |-> 1154, call |-> "SetTransformations"],
       [line |-> 1156, call |-> "SetShaderTexture", tag |-> "black_metal"],
       [line |-> 1157, call |-> "SetTextureUVScale", u |-> 1000, v |-> 1000],
       [line |-> 1158, call |-> "SetShaderMaterial", tag |-> "black_metal1"],
       [line |-> 1160, call |-> "DrawCylinderMesh"],
       [line |-> 1168, call |-> "SetTransformations"],
       [line |-> 1171, call |-> "SetShaderTexture", tag |-> "stainless"],
       [line |-> 1172, call |-> "SetTextureUVScale", u |-> 1000, v |-> 1000],
       [line |-> 1173, call |-> "SetShaderMaterial", tag |-> "stainless1"],
       [line |-> 1175, call |-> "DrawCylinderMesh"],
       [line |-> 1183, call |-> "SetTransformations"],
       [line |-> 1186, call |-> "SetShaderTexture", tag |-> "black_metal"],
       [line |-> 1187, call |-> "SetTextureUVScale", u |-> 1000, v |-> 1000],
       [line |-> 1188, call |-> "SetShaderMaterial", tag |-> "black_metal1"],
       [line |-> 1190, call |-> "DrawCylinderMesh"],
       [line |-> 1198, call |-> "SetTransformations"],
       [line |-> 1201, call |-> "SetShaderTexture", tag |-> "laptop"],
       [line |-> 1202, call |-> "SetTextureUVScale", u |-> 1000, v |-> 1000],
       [line |-> 1203, call |-> "SetShaderMaterial", tag |-> "laptop1"],
       [line |-> 1206, call |-> "DrawCylinderMesh"],
       [line |-> 1214, call |-> "SetTransformations"],
       [line |-> 1216, call |-> "SetShaderTexture", tag |-> "wax"],
       [line |-> 1217, call |-> "SetTextureUVScale", u |-> 1000, v |-> 1000],
       [line |-> 1218, call |-> "SetShaderMaterial", tag |-> "wax1"],
       [line |-> 1220, call |-> "DrawCylinderMesh"],
       [line |-> 1228, call |-> "SetTransformations"],
       [line |-> 1230, call |-> "SetShaderTexture", tag |-> "glass"],
       [line |-> 1231, call |-> "SetTextureUVScale", u |-> 1000, v |-> 1000],
       [line |-> 1232, call |-> "SetShaderMaterial", tag |-> "glass1"],
       [line |-> 1234, call |-> "DrawConeMesh"],
       [line |-> 1242, call |-> "SetTransformations"],
       [line |-> 1244, call |-> "SetShaderTexture", tag |-> "glass"],
       [line |-> 1245, call |-> "SetTextureUVScale", u |-> 1000, v |-> 1000],
       [line |-> 1246, call |-> "SetShaderMaterial", tag |-> "glass1"],
       [line |-> 1248, call |-> "DrawCylinderMesh"],
       [line |-> 1257, call |-> "SetTransformations"],
       [line |-> 1259, call |-> "SetShaderTexture", tag |-> "wax"],
       [line |-> 1260, call |-> "SetTextureUVScale", u |-> 1000, v |-> 1000],
       [line |-> 1261, call |-> "SetShaderMaterial", tag |-> "wax1"],
       [line |-> 1263, call |-> "DrawCylinderMesh"],
       [line |-> 1271, call |-> "SetTransformations"],
       [line |-> 1273, call |-> "SetShaderTexture", tag |-> "glass"],
       [line |-> 1274, call |-> "SetTextureUVScale", u |-> 1000, v |-> 1000],
       [line |-> 1275, call |-> "SetShaderMaterial", tag |-> "glass1"],
       [line |-> 1277, call |-> "DrawConeMesh"],
       [line |-> 1285, call |-> "SetTransformations"],
       [line |-> 1287, call |-> "SetShaderTexture", tag |-> "glass"],
       [line |-> 1288, call |-> "SetTextureUVScale", u |-> 1000, v |-> 1000],
       [line |-> 1289, call |-> "SetShaderMaterial", tag |-> "glass1"],
       [line |-> 1291, call |-> "DrawCylinderMesh"],
       [line |-> 1299, call |-> "SetTransformations"],
       [line |-> 1301, call |-> "SetShaderTexture", tag |-> "flame"],
       [line |-> 1302, call |-> "SetTextureUVScale", u |-> 3000, v |-> 3000],
       [line |-> 1303, call |-> "SetShaderMaterial", tag |-> "flame1"],
       [line |-> 1305, call |-> "DrawSphereMesh"],
       [line |-> 1313, call |-> "SetTransformations"],
       [line |-> 1315, call |-> "SetShaderTexture", tag |-> "flame"],
       [line |-> 1316, call |-> "SetTextureUVScale", u |-> 3000, v |-> 3000],
       [line |-> 1317, call |-> "SetShaderMaterial", tag |-> "flame1"],
       [line |-> 1319, call |-> "DrawSphereMesh"],
       [line |-> 1327, call |-> "SetTransformations"],
       [line |-> 1329, call |-> "SetShaderTexture", tag |-> "salt1"],
       [line |-> 1330, call |-> "SetTextureUVScale", u |-> 1000, v |-> 500],
       [line |-> 1331, call |-> "SetShaderMaterial", tag |-> "salt2"],
       [line |-> 1333, call |-> "DrawCylinderMesh"],
       [line |-> 1341, call |-> "SetTransformations"],
       [line |-> 1343, call |-> "SetShaderTexture", tag |-> "salt1"],
       [line |-> 1344, call |-> "SetTextureUVScale", u |-> 1000, v |-> 3000],
       [line |-> 1345, call |-> "SetShaderMaterial", tag |-> "salt2"],
       [line |-> 1347, call |-> "DrawSphereMesh"],
       [line |-> 1355, call |-> "SetTransformations"],
       [line |-> 1357, call |-> "SetShaderTexture", tag |-> "salt1"],
       [line |-> 1358, call |-> "SetTextureUVScale", u |-> 1000, v |-> 500],
       [line |-> 1359, call |-> "SetShaderMaterial", tag |-> "salt2"],
       [line |-> 1361, call |-> "DrawCylinderMesh"],
       [line |-> 1369, call |-> "SetTransformations"],
       [line |-> 1371, call |-> "SetShaderTexture", tag |-> "cap2"],
       [line |-> 1372, call |-> "SetTextureUVScale", u |-> 1000, v |-> 3500],
       [line |-> 1373, call |-> "SetShaderMaterial", tag |-> "cap3"],
       [line |-> 1375, call |-> "DrawHalfSphereMesh"],
       [line |-> 1383, call |-> "SetTransformations"],
       [line |-> 1385, call |-> "SetShaderTexture", tag |-> "pepper"],
       [line |-> 1386, call |-> "SetTextureUVScale", u |-> 1000, v |-> 500],
       [line |-> 1387, call |-> "SetShaderMaterial", tag |-> "pepper1"],
       [line |-> 1389, call |-> "DrawCylinderMesh"],
       [line |-> 1397, call |-> "SetTransformations"],
       [line |-> 1399, call |-> "SetShaderTexture", tag |-> "pepper"],
       [line |-> 1400, call |-> "SetTextureUVScale", u |-> 1000, v |-> 3000],
       [line |-> 1401, call |-> "SetShaderMaterial", tag |-> "pepper1"],
       [line |-> 1403, call |-> "DrawSphereMesh"],
       [line |-> 1411, call |-> "SetTransformations"],
       [line |-> 1413, call |-> "SetShaderTexture", tag |-> "pepper"],
       [line |-> 1414, call |-> "SetTextureUVScale", u |-> 1000, v |-> 500],
       [line |-> 1415, call |-> "SetShaderMaterial", tag |-> "pepper1"],
       [line |-> 1417, call |-> "DrawCylinderMesh"],
       [line |-> 1425, call |-> "SetTransformations"],
       [line |-> 1427, call |-> "SetShaderTexture", tag |-> "cap2"],
       [line |-> 1428, call |-> "SetTextureUVScale", u |-> 1000, v |-> 3500],
       [line |-> 1429, call |-> "SetShaderMaterial", tag |-> "cap3"],
       [line |-> 1431, call |-> "DrawHalfSphereMesh"] >>

(* a RenderScene that registers a texture tag it does not find *)
RenderCall_RegistersMissing(g, c, material, ub) ==
    IF g.crashed THEN g
    ELSE LET h == [g EXCEPT !.calls = Append(@, c.call)]
         IN  CASE c.call = "SetTransformations" -> PushModel(h, [line |-> c.line])
               [] c.call = "SetShaderTexture" ->
                     IF FindTextureSlotIn(h.tab, h.n, c.tag) = NotFound
                        /\ h.n < Capacity
                     THEN SetShaderTextureOn(
                              [h EXCEPT !.tab[h.n].tag = c.tag, !.n = @ + 1], c.tag)
                     ELSE SetShaderTextureOn(h, c.tag)
               [] c.call = "SetTextureUVScale" -> SetTextureUVScaleOn(h, c.u, c.v)
               [] c.call = "SetShaderMaterial" ->
                     SetShaderMaterialOn(h, c.tag, material, ub)
               [] OTHER -> [h EXCEPT !.meshCalls = Append(@, c.call)]

(* one call of the body of RenderScene; nothing runs once the process died *)
RenderCall(g, c, material, ub) ==
    IF g.crashed THEN g
    ELSE LET h == [g EXCEPT !.calls = Append(@, c.call)]
         IN  CASE c.call = "SetTransformations" -> PushModel(h, [line |-> c.line])
               [] c.call = "SetShaderTexture" -> SetShaderTextureOn(h, c.tag)
               [] c.call = "SetTextureUVScale" -> SetTextureUVScaleOn(h, c.u, c.v)
               [] c.call = "SetShaderMaterial" ->
                     SetShaderMaterialOn(h, c.tag, material, ub)
               [] OTHER -> [h EXCEPT !.meshCalls = Append(@, c.call)]

(* the calls lo..hi of the body, in order; the range is halved, and the
   first half finished before the second starts, so that the evaluation does
   not nest once per call *)
RECURSIVE RenderRange(_, _, _, _, _)
RenderRange(g, lo, hi, material, ub) ==
    IF lo = hi THEN RenderCall(g, RenderCalls[lo], material, ub)
    ELSE LET mid == (lo + hi) \div 2
             h == RenderRange(g, lo, mid, material, ub)
         IN  IF h.crashed THEN h ELSE RenderRange(h, mid + 1, hi, material, ub)

RenderSceneOn(g, material, ub) ==
    RenderRange(g, 1, Len(RenderCalls), material, ub)

(********************************* Init ************************************)
NoCall == [op |-> "none"]

(* the state the constructor leaves, for the pointer it is given *)
Constructed(pShaderManager) ==
    /\ m_textureIDs = [i \in Slots |-> [tag |-> PlaceholderTag, ID |-> NotFound]]
    /\ m_loadedTextures = 0
    /\ m_objectMaterials = <<>>
    /\ glTextures = <<>>
    /\ glUnits = [u \in Slots |-> 0]
    /\ glActive = 0
    /\ imageBuffers = 0
    /\ meshCalls = <<>>
    /\ bUseLighting = FALSE
    /\ lightSources = {}
    /\ crashed = FALSE
    /\ maxWrite = NotFound
    /\ nSuccess = 0
    /\ nDirect = 0
    /\ last = NoCall
    /\ m_pShaderManager = pShaderManager
    /\ uniforms = <<>>
    /\ surface = "none"
    /\ destroyed = FALSE

Init == Constructed("valid")

(******************************** actions **********************************)
SetTexState(s) ==
    /\ m_textureIDs' = s.tab
    /\ m_loadedTextures' = s.n
    /\ glTextures' = s.tex
    /\ glUnits' = s.units
    /\ glActive' = s.active
    /\ imageBuffers' = s.images
    /\ crashed' = s.crashed
    /\ maxWrite' = s.maxWrite
    /\ nSuccess' = s.nSuccess

(* what the call record keeps of the state the call started in *)
Pre == [tab |-> m_textureIDs, n |-> m_loadedTextures, mats |-> m_objectMaterials,
        tex |-> glTextures, meshCalls |-> meshCalls]

CreateGLTexture(ch, tag, ub) ==
    /\ ~crashed /\ ~destroyed
    /\ nDirect < MaxDirect
    /\ m_loadedTextures < Capacity + MaxOverrun
    /\ LET s == CreateGLTextureOn(TexState, ch, tag, ub)
       IN  /\ SetTexState(s)
           /\ last' = [op |-> "CreateGLTexture", tag |-> tag, channels |-> ch,
                       ret |-> s.ret, pre |-> Pre]
    /\ nDirect' = nDirect + 1
    /\ UNCHANGED <<m_objectMaterials, meshCalls, bUseLighting, lightSources>>
    /\ UNCHANGED sceneVars

BindGLTextures ==
    /\ ~crashed /\ ~destroyed
    /\ SetTexState(BindGLTexturesOn(TexState))
    /\ last' = [op |-> "BindGLTextures", pre |-> Pre]
    /\ UNCHANGED <<m_objectMaterials, meshCalls, bUseLighting, lightSources, nDirect>>
    /\ UNCHANGED sceneVars

(* a PrepareScene that loads the plane mesh a second time instead of the box *)
PrepareCalls_PlaneTwice ==
    << "LoadSceneTextures", "DefineObjectMaterials", "SetupSceneLights",
       "LoadPlaneMesh", "LoadPlaneMesh", "LoadCylinderMesh", "LoadConeMesh",
       "LoadSphereMesh" >>

(* the calls in the body of PrepareScene, in source order (lines 680-694) *)
PrepareCalls ==
    << "LoadSceneTextures", "DefineObjectMaterials", "SetupSceneLights",
       "LoadPlaneMesh", "LoadBoxMesh", "LoadCylinderMesh", "LoadConeMesh",
       "LoadSphereMesh" >>

(* the state PrepareScene works on, with the log of the calls it has made *)
PrepState ==
    [tex |-> TexState, mats |-> m_objectMaterials, bUseLighting |-> bUseLighting,
     lightSources |-> lightSources, meshCalls |-> meshCalls, calls |-> <<>>]

(* one call of the body; nothing runs once the process has died *)
PrepareCall(p, name, dec, ub) ==
    IF p.tex.crashed THEN p
    ELSE LET q == [p EXCEPT !.calls = Append(@, name)]
         IN  CASE name = "LoadSceneTextures" ->
                    [q EXCEPT !.tex = LoadSceneTexturesOn(p.tex, dec, ub)]
               [] name = "DefineObjectMaterials" ->
                    [q EXCEPT !.mats = DefineObjectMaterialsOn(@)]
               [] name = "SetupSceneLights" ->
                    [q EXCEPT !.bUseLighting = TRUE,
                              !.lightSources = @ \cup (0 .. 3)]
               [] OTHER ->
                    [q EXCEPT !.meshCalls = Append(@, name)]

RECURSIVE PrepareFrom(_, _, _, _)
PrepareFrom(p, k, dec, ub) ==
    IF k > Len(PrepareCalls) THEN p
    ELSE PrepareFrom(PrepareCall(p, PrepareCalls[k], dec, ub), k + 1, dec, ub)

(* PrepareScene on a freshly constructed SceneManager *)
PrepareScene(dec, ub) ==
    /\ ~crashed /\ ~destroyed
    /\ nDirect = 0 /\ m_loadedTextures = 0 /\ m_objectMaterials = <<>>
    /\ LET p == PrepareFrom(PrepState, 1, dec, ub)
       IN  /\ SetTexState(p.tex)
           /\ m_objectMaterials' = p.mats
           /\ bUseLighting' = p.bUseLighting
           /\ lightSources' = p.lightSources
           /\ meshCalls' = p.meshCalls
           /\ last' = [op |-> "PrepareScene", dec |-> dec, pre |-> Pre,
                       calls |-> p.calls]
    /\ UNCHANGED nDirect
    /\ UNCHANGED sceneVars

(* ~SceneManager: drops the shader manager, deletes the meshes, then
   DestroyGLTextures *)
Destructor ==
    /\ ~crashed /\ ~destroyed
    /\ m_pShaderManager' = "null"
    /\ meshCalls' = Append(meshCalls, "delete")
    /\ SetTexState(DestroyGLTexturesOn(TexState))
    /\ destroyed' = TRUE
    /\ last' = [op |-> "~SceneManager", pre |-> Pre]
    /\ UNCHANGED <<m_objectMaterials, bUseLighting, lightSources, nDirect,
                   uniforms, surface>>

Next ==
    \/ Destructor
    \/ \E ch \in Channels, tag \in DirectTags :
         \E ub \in UBOutcomes(ch \in {3, 4} /\ m_loadedTextures >= Capacity) :
            CreateGLTexture(ch, tag, ub)
    \/ BindGLTextures
    \/ /\ nDirect = 0
       /\ \E dec \in SceneDecodes :
            \E ub \in UBOutcomes(m_loadedTextures + Successes(dec) > Capacity) :
               PrepareScene(dec, ub)

Spec == Init /\ [][Next]_vars

(********************** the setters and RenderScene ************************)
SetSceneState(g) ==
    /\ uniforms' = g.uniforms
    /\ surface' = g.surface
    /\ m_textureIDs' = g.tab
    /\ m_loadedTextures' = g.n
    /\ m_objectMaterials' = g.mats
    /\ meshCalls' = g.meshCalls
    /\ crashed' = g.crashed
    /\ UNCHANGED <<glTextures, glUnits, glActive, imageBuffers, bUseLighting,
                   lightSources, maxWrite, nSuccess, m_pShaderManager, destroyed>>

(* a direct call of one of the setters: g is the state it leaves, `more' what
   else the call record keeps *)
SetterCallWith(op, arg, g, more) ==
    /\ ~crashed /\ ~destroyed
    /\ nDirect < MaxDirect
    /\ SetSceneState(g)
    /\ nDirect' = nDirect + 1
    /\ last' = [op |-> op, arg |-> arg, pre |-> Pre, writes |-> g.writes,
                nullCalls |-> g.nullCalls] @@ more

SetterCall(op, arg, g) == SetterCallWith(op, arg, g, <<>>)

SetTransformations(scaleXYZ, XrotationDegrees, YrotationDegrees, ZrotationDegrees, positionXYZ) ==
    SetterCall("SetTransformations",
               [scaleXYZ |-> scaleXYZ, XrotationDegrees |-> XrotationDegrees,
                YrotationDegrees |-> YrotationDegrees,
                ZrotationDegrees |-> ZrotationDegrees,
                positionXYZ |-> positionXYZ],
               SetTransformationsOn(SceneState, scaleXYZ, XrotationDegrees,
                                    YrotationDegrees, ZrotationDegrees, positionXYZ))

SetShaderColor(color) ==
    SetterCall("SetShaderColor", color, SetShaderColorOn(SceneState, color))

SetShaderTexture(textureTag) ==
    SetterCall("SetShaderTexture", textureTag,
               SetShaderTextureOn(SceneState, textureTag))

SetTextureUVScale(u, v) ==
    SetterCall("SetTextureUVScale", <<u, v>>, SetTextureUVScaleOn(SceneState, u, v))

(* `material' is what the local of that name holds when the call starts *)
SetShaderMaterial(materialTag, material, ub) ==
    SetterCallWith("SetShaderMaterial", materialTag,
                   SetShaderMaterialOn(SceneState, materialTag, material, ub),
                   [local |-> material])

RenderScene(material, ub) ==
    /\ ~crashed /\ ~destroyed
    /\ nDirect < MaxDirect
    /\ LET g == RenderSceneOn(SceneState, material, ub)
       IN  /\ SetSceneState(g)
           /\ last' = [op |-> "RenderScene", pre |-> Pre, calls |-> g.calls]
    /\ nDirect' = nDirect + 1

SceneColors == {<<1000, 0, 0, 1000>>}
SceneTextureTags == {"ground", "unregistered-tag"}

(* the texture tags RenderScene asks for *)
RenderTextureTags ==
    {RenderCalls[k].tag : k \in {j \in DOMAIN RenderCalls :
                                   RenderCalls[j].call = "SetShaderTexture"}}

(* the material tags RenderScene asks for *)
RenderMaterialTags ==
    {RenderCalls[k].tag : k \in {j \in DOMAIN RenderCalls :
                                   RenderCalls[j].call = "SetShaderMaterial"}}
SceneMaterialTags == {"wood1", "stainless1"}

NextScene ==
    \/ /\ nDirect = 0
       /\ \E dec \in SceneDecodes :
            \E ub \in UBOutcomes(m_loadedTextures + Successes(dec) > Capacity) :
               PrepareScene(dec, ub)
    \/ \E material \in LocalMaterials(m_objectMaterials, RenderMaterialTags),
          ub \in NullOutcomes(SceneState) :
          RenderScene(material, ub)
    \/ SetTransformations(<<2, 3, 5>>, 0, 90, 0, <<1, 0 - 2, 3>>)
    \/ \E color \in SceneColors : SetShaderColor(color)
    \/ \E textureTag \in SceneTextureTags : SetShaderTexture(textureTag)
    \/ SetTextureUVScale(1000, 3500)
    \/ \E materialTag \in SceneMaterialTags :
          \E material \in LocalMaterials(m_objectMaterials, {materialTag}),
             ub \in NullOutcomes(SceneState) :
             SetShaderMaterial(materialTag, material, ub)

SpecScene == Init /\ [][NextScene]_vars

(************************ SetTransformations alone *************************)
XformScales == {<<1, 1, 1>>, <<2, 3, 5>>}
XformDegrees == {0, 90, 180, 0 - 90}
XformPositions == {<<0, 0, 0>>, <<1, 0 - 2, 3>>}

NextXform ==
    \E scaleXYZ \in XformScales, positionXYZ \in XformPositions,
       XrotationDegrees \in XformDegrees, YrotationDegrees \in XformDegrees,
       ZrotationDegrees \in XformDegrees :
       SetTransformations(scaleXYZ, XrotationDegrees, YrotationDegrees,
                          ZrotationDegrees, positionXYZ)

SpecXform == Init /\ [][NextXform]_vars


(************************ the material list alone **************************)
MaterialTags == {"a", "b"}
MaterialValues == {1000, 2000}

(* m_objectMaterials.push_back(material) *)
PushMaterial(material) ==
    /\ Len(m_objectMaterials) < MaxMaterials
    /\ m_objectMaterials' = Append(m_objectMaterials, material)
    /\ last' = [op |-> "push_back", tag |-> material.tag, pre |-> Pre]
    /\ UNCHANGED <<m_textureIDs, m_loadedTextures, glTextures, glUnits, glActive,
                   imageBuffers, meshCalls, bUseLighting, lightSources, crashed,
                   maxWrite, nSuccess, nDirect>>
    /\ UNCHANGED sceneVars

DefineObjectMaterials ==
    /\ Len(m_objectMaterials) <= MaxMaterials
    /\ m_objectMaterials' = DefineObjectMaterialsOn(m_objectMaterials)
    /\ last' = [op |-> "DefineObjectMaterials", pre |-> Pre]
    /\ UNCHANGED <<m_textureIDs, m_loadedTextures, glTextures, glUnits, glActive,
                   imageBuffers, meshCalls, bUseLighting, lightSources, crashed,
                   maxWrite, nSuccess, nDirect>>
    /\ UNCHANGED sceneVars

NextMat ==
    \/ \E tag \in MaterialTags \cup {"wood1"}, v \in MaterialValues :
          PushMaterial(Material(tag, <<v, v, v>>, v, <<v, 0, v>>, <<0, v, 0>>, v))
    \/ DefineObjectMaterials
    \/ \E materialTag \in MaterialTags :
          \E material \in LocalMaterials(m_objectMaterials, {materialTag}),
             ub \in NullOutcomes(SceneState) :
             SetShaderMaterial(materialTag, material, ub)

SpecMat == Init /\ [][NextMat]_vars

(********************* without a shader manager ****************************)
(* new SceneManager(NULL), then the setters on registries that the direct
   calls fill.  PrepareScene is left out: its SetupSceneLights calls through
   m_pShaderManager at once (line 631). *)
InitNull == Constructed("null")

NextNull ==
    \/ CreateGLTexture(3, "ground", "none")
    \/ \E tag \in {"a", "wood1"} :
          PushMaterial(Material(tag, <<1000, 1000, 1000>>, 1000, <<1000, 0, 1000>>,
                                <<0, 1000, 0>>, 1000))
    \/ DefineObjectMaterials
    \/ SetTransformations(<<2, 3, 5>>, 0, 90, 0, <<1, 0 - 2, 3>>)
    \/ \E color \in SceneColors : SetShaderColor(color)
    \/ \E textureTag \in SceneTextureTags : SetShaderTexture(textureTag)
    \/ SetTextureUVScale(1000, 3500)
    \/ \E materialTag \in SceneMaterialTags :
          \E material \in LocalMaterials(m_objectMaterials, {materialTag}),
             ub \in NullOutcomes(SceneState) :
             SetShaderMaterial(materialTag, material, ub)

SpecNull == InitNull /\ [][NextNull]_vars

(***************************************************************************)
(*                         Properties of the registry                      *)
(***************************************************************************)
Min(a, b) == IF a < b THEN a ELSE b

Filled == 0 .. (m_loadedTextures - 1)
InTable == 0 .. (Min(m_loadedTextures, Capacity) - 1)

DirectCreate == last.op = "CreateGLTexture"

(* the tags LoadSceneTextures registers for decode outcomes dec, in order *)
RECURSIVE LoadedTags(_, _)
LoadedTags(dec, k) ==
    IF k > Len(dec) THEN <<>>
    ELSE (IF dec[k] \in {3, 4} THEN <<SceneTextures[k]>> ELSE <<>>)
         \o LoadedTags(dec, k + 1)

(* the record a caller hands to FindMaterial before the call fills it *)
CallerMaterial ==
    Material("", <<NotFound, NotFound, NotFound>>, NotFound,
             <<NotFound, NotFound, NotFound>>, <<NotFound, NotFound, NotFound>>, NotFound)

FindMaterial(tag) == FindMaterialIn(m_objectMaterials, tag, CallerMaterial)

SameFields(a, b) ==
    /\ a.ambientColor = b.ambientColor
    /\ a.ambientStrength = b.ambientStrength
    /\ a.diffuseColor = b.diffuseColor
    /\ a.specularColor = b.specularColor
    /\ a.shininess = b.shininess

AllMaterialTags ==
    MaterialTags \cup {SceneMaterials[i].tag : i \in 1..Len(SceneMaterials)}
                 \cup {"absent"}

(* C1: with 16 slots filled, registering a further decodable 3- or 4-channel
   image returns failure, leaves the count at 16 and leaves the tag and handle
   of each of the 16 slots as they were. *)
C1_FullRegistryRejects ==
    (DirectCreate /\ last.pre.n = Capacity /\ last.channels \in {3, 4})
        => /\ ~crashed
           /\ last.ret = FALSE
           /\ m_loadedTextures = Capacity
           /\ \A i \in 0 .. (Capacity - 1) : m_textureIDs[i] = last.pre.tab[i]

(* C2: the loaded-texture counter stays within 0..16 and every slot write is
   aimed at an index in 0..15, in every reachable state. *)
C2_CounterWithinTable ==
    /\ m_loadedTextures \in 0 .. Capacity
    /\ maxWrite <= Capacity - 1

(* C3: right after a successful registration of a tag, FindTextureSlot of that
   tag returns an index i with 0 <= i < number of successful registrations. *)
C3_RegisteredTagIsFound ==
    (DirectCreate /\ last.ret = TRUE)
        => FindTextureSlot(last.tag) \in 0 .. (nSuccess - 1)

C3_Witness ==
    /\ DirectCreate /\ last.ret = TRUE
    /\ nSuccess >= 2
    /\ FindTextureSlot(last.tag) = m_loadedTextures - 1

(* C4: registering an image that decodes with a channel count other than 3 or
   4 returns failure and leaves the filled-slot count and every slot as they
   were. *)
C4_UnsupportedChannelsRejected ==
    (DirectCreate /\ last.channels \notin {0, 3, 4})
        => /\ last.ret = FALSE
           /\ m_loadedTextures = last.pre.n
           /\ m_textureIDs = last.pre.tab

C4_Witness ==
    /\ DirectCreate /\ last.channels = 2 /\ last.ret = FALSE
    /\ m_loadedTextures >= 1

(* C5: an image that cannot be decoded makes the registration return failure
   with the registry unchanged, and LoadSceneTextures carries on with the
   remaining files: afterwards the count is the number of successful loads and
   the filled prefix holds the tags of the successful loads in authored order,
   with no gap and nothing written behind it. *)
C5_FailedLoadIsSkipped ==
    /\ (DirectCreate /\ last.channels = 0)
          => /\ last.ret = FALSE
             /\ m_loadedTextures = last.pre.n
             /\ m_textureIDs = last.pre.tab
    /\ (last.op = "PrepareScene" /\ \E k \in DOMAIN last.dec : last.dec[k] = 0)
          => /\ ~crashed
             /\ m_loadedTextures = Successes(last.dec)
             /\ nSuccess = Successes(last.dec)
             /\ \A i \in Filled :
                   m_textureIDs[i].tag = LoadedTags(last.dec, 1)[i + 1]
             /\ \A i \in Slots \ Filled : m_textureIDs[i] = last.pre.tab[i]

C5_Witness ==
    /\ last.op = "PrepareScene"
    /\ last.dec[2] = 0
    /\ m_loadedTextures = Len(SceneTextures) - 1
    /\ m_textureIDs[1].tag = "Onyx1"

(* C6: for every tag that no slot of the filled prefix carries, FindTextureSlot
   and FindTextureID both return -1; before any registration that is every
   tag, the constructor's placeholder tag included. *)
C6_UnregisteredTagNotFound ==
    \A tag \in QueryTags :
        (\A i \in Filled : m_textureIDs[i].tag # tag)
            => /\ FindTextureSlot(tag) = NotFound
               /\ FindTextureID(tag) = NotFound

C6_Witness ==
    /\ m_loadedTextures \in 1 .. (Capacity - 1)
    /\ FindTextureSlot("ground") # NotFound
    /\ \A i \in Filled : m_textureIDs[i].tag # "extra"
    /\ FindTextureSlot(PlaceholderTag) = NotFound
    /\ m_textureIDs[m_loadedTextures].tag = PlaceholderTag

(* C7: FindMaterial(tag) returns the field values of the earliest-registered
   material with that tag, and registering a further material with a tag that is
   already registered does not change what FindMaterial returns for that tag. *)
C7_FirstMaterialWins ==
    /\ \A tag \in AllMaterialTags : \A i \in 1 .. Len(m_objectMaterials) :
          (/\ m_objectMaterials[i].tag = tag
           /\ \A j \in 1 .. (i - 1) : m_objectMaterials[j].tag # tag)
             => SameFields(FindMaterial(tag).material, m_objectMaterials[i])
    /\ (last.op = "push_back"
        /\ \E j \in 1 .. Len(last.pre.mats) : last.pre.mats[j].tag = last.tag)
          => FindMaterial(last.tag)
               = FindMaterialIn(last.pre.mats, last.tag, CallerMaterial)

C7_Witness ==
    /\ last.op = "push_back" /\ last.tag = "a"
    /\ Len(m_objectMaterials) = 3
    /\ m_objectMaterials[1].tag = "a"
    /\ m_objectMaterials[2].tag = "b"
    /\ m_objectMaterials[3].tag = "a"
    /\ ~SameFields(m_objectMaterials[1], m_objectMaterials[3])
    /\ SameFields(FindMaterial("a").material, m_objectMaterials[1])

(* C8: FindMaterial reports found=false exactly when the material list is
   empty; with a non-empty list it reports found=true for every tag, also for a
   tag that no registered material carries. *)
C8_FoundUnlessEmpty ==
    \A tag \in AllMaterialTags :
        FindMaterial(tag).ret = (Len(m_objectMaterials) # 0)

C8_Witness ==
    /\ Len(m_objectMaterials) = 2
    /\ \A j \in 1 .. 2 : m_objectMaterials[j].tag # "b"
    /\ FindMaterial("b").ret = TRUE
    /\ FindMaterial("b").material = CallerMaterial

(* C9 as stated: the tags of the filled prefix are pairwise distinct in every
   reachable state, after any sequence of registrations. *)
C9_TagsDistinctAlways ==
    \A i, j \in Filled : i # j => m_textureIDs[i].tag # m_textureIDs[j].tag

(* C9 amended: the tags that LoadSceneTextures, run by PrepareScene on a newly
   constructed SceneManager, puts into the slots of the table are pairwise
   distinct. *)
C9_SceneTagsDistinct ==
    last.op = "PrepareScene"
        => \A i, j \in InTable : i # j => m_textureIDs[i].tag # m_textureIDs[j].tag

C9_Witness ==
    /\ last.op = "PrepareScene"
    /\ m_loadedTextures >= Capacity
    /\ m_textureIDs[0].tag = "ground"
    /\ m_textureIDs[Capacity - 1].tag \in {"pepper", "salt1"}

(* C10: after BindGLTextures, for every registered tag the texture unit
   numbered FindTextureSlot(tag) has the handle FindTextureID(tag) bound; and
   PrepareScene binds after its last registration, so every slot it filled is
   bound to the unit of its index. *)
C10_BoundUnitsAgreeWithLookup ==
    /\ (last.op \in {"BindGLTextures", "PrepareScene"} /\ ~crashed)
          => \A tag \in QueryTags :
                FindTextureSlot(tag) # NotFound
                   => glUnits[FindTextureSlot(tag)] = FindTextureID(tag)
    /\ (last.op = "PrepareScene" /\ ~crashed)
          => \A i \in Filled : glUnits[i] = m_textureIDs[i].ID

C10_Witness ==
    /\ last.op = "BindGLTextures"
    /\ m_loadedTextures >= 2
    /\ FindTextureSlot("extra") = m_loadedTextures - 1
    /\ glUnits[FindTextureSlot("extra")] = FindTextureID("extra")
    /\ glUnits[0] = FindTextureID("ground")

(* C11: after the destructor every texture object that was allocated for a
   registered slot has been released, and the teardown has allocated no new
   texture name. *)
C11_TeardownReleasesTextures ==
    last.op = "~SceneManager"
        => /\ \A i \in 0 .. (last.pre.n - 1) :
                 glTextures[last.pre.tab[i].ID] = "deleted"
           /\ Len(glTextures) = Len(last.pre.tex)

(* where a call stands in a call log (0: nowhere), and how often *)
Positions(log, name) == {k \in 1 .. Len(log) : log[k] = name}

MeshLoads ==
    {"LoadPlaneMesh", "LoadBoxMesh", "LoadCylinderMesh", "LoadConeMesh",
     "LoadSphereMesh"}

(* C13: a call of PrepareScene issues the load of each of plane, box,
   cylinder, cone and sphere exactly once, and each of them after the textures
   are registered and bound, the materials defined and the lights pushed. *)
C13_EachMeshLoadedOnce ==
    (last.op = "PrepareScene" /\ ~crashed)
        => /\ \A load \in MeshLoads :
                /\ Cardinality(Positions(last.calls, load)) = 1
                /\ Cardinality(Positions(meshCalls, load)) = 1
                /\ \A setup \in {"LoadSceneTextures", "DefineObjectMaterials",
                                 "SetupSceneLights"} :
                      \A i \in Positions(last.calls, setup) :
                         \A j \in Positions(last.calls, load) : i < j
           /\ Len(meshCalls) = Cardinality(MeshLoads)
           /\ m_loadedTextures = Successes(last.dec)
           /\ \A i \in Filled : glUnits[i] = m_textureIDs[i].ID
           /\ m_objectMaterials = SceneMaterials
           /\ bUseLighting /\ lightSources = 0 .. 3

C13_Witness ==
    /\ last.op = "PrepareScene" /\ ~crashed
    /\ m_loadedTextures >= Capacity
    /\ meshCalls[1] = "LoadPlaneMesh"
    /\ meshCalls[5] = "LoadSphereMesh"

(***************************************************************************)
(*                  Properties of the setters and RenderScene              *)
(***************************************************************************)
Setters ==
    {"SetTransformations", "SetShaderTexture", "SetShaderColor",
     "SetTextureUVScale", "SetShaderMaterial"}

IsDraw(call) == call \notin Setters

Rendered == last.op = "RenderScene"

(* C12: in the calls RenderScene makes, every mesh draw has right before it
   SetTransformations, then SetShaderTexture or SetShaderColor, then
   SetTextureUVScale, then SetShaderMaterial, and before those the previous
   draw or the start of RenderScene. *)
C12_DrawAfterFourSetters ==
    (Rendered /\ ~crashed)
        => \A k \in DOMAIN last.calls :
              IsDraw(last.calls[k])
                 => /\ k >= 5
                    /\ last.calls[k - 4] = "SetTransformations"
                    /\ last.calls[k - 3] \in {"SetShaderTexture", "SetShaderColor"}
                    /\ last.calls[k - 2] = "SetTextureUVScale"
                    /\ last.calls[k - 1] = "SetShaderMaterial"
                    /\ (k = 5 \/ IsDraw(last.calls[k - 5]))

(* C14: RenderScene and a call of any of the setters leave the texture table,
   the count of loaded textures and the material list as they were. *)
C14_RenderLeavesRegistry ==
    (last.op \in Setters \cup {"RenderScene"})
        => /\ m_textureIDs = last.pre.tab
           /\ m_loadedTextures = last.pre.n
           /\ m_objectMaterials = last.pre.mats

C14_Witness ==
    /\ Rendered /\ ~crashed
    /\ m_loadedTextures > 0 /\ m_loadedTextures < Capacity
    /\ Len(m_objectMaterials) > 0

(* C15: once SetShaderColor or SetShaderTexture has been called, bUseTexture
   is true exactly if the later of the calls made so far was SetShaderTexture. *)
C15_LastSurfaceCallWins ==
    surface # "none"
        => /\ "bUseTexture" \in DOMAIN uniforms
           /\ (uniforms["bUseTexture"] = 1 <=> surface = "texture")

C15_Witness ==
    /\ last.op = "SetShaderColor"
    /\ "objectTexture" \in DOMAIN uniforms
    /\ uniforms["bUseTexture"] = 0

(* C16: SetShaderTexture(tag) sets bUseTexture and pushes FindTextureSlot(tag)
   as objectTexture; for a tag that no filled slot carries it pushes -1, sets
   bUseTexture all the same, and the call returns normally. *)
C16_SamplerIsSlotOrSentinel ==
    last.op = "SetShaderTexture"
        => /\ ~crashed
           /\ last.writes = << <<"bUseTexture", 1>>,
                               <<"objectTexture", FindTextureSlot(last.arg)>> >>
           /\ uniforms["bUseTexture"] = 1
           /\ uniforms["objectTexture"] = FindTextureSlot(last.arg)
           /\ (\A i \in Filled : m_textureIDs[i].tag # last.arg)
                 => uniforms["objectTexture"] = 0 - 1

C16_Witness ==
    /\ last.op = "SetShaderTexture"
    /\ last.arg = "ground"
    /\ m_loadedTextures > 0
    /\ uniforms["objectTexture"] = 0 - 1

(* the place of the first material of the list mats that carries the tag *)
FirstWithTag(mats, tag) ==
    CHOOSE i \in DOMAIN mats :
        /\ mats[i].tag = tag
        /\ \A j \in 1 .. (i - 1) : mats[j].tag # tag

(* C17: SetShaderMaterial(tag) writes no uniform when the material list is
   empty; when the list holds a material with the tag it writes the five
   uniforms material.ambientColor, material.ambientStrength,
   material.diffuseColor, material.specularColor and material.shininess, and
   no other, with the values of the first material of the list that carries
   the tag. *)
C17_FiveUniformsOfFirstMatch ==
    last.op = "SetShaderMaterial"
        => /\ last.pre.mats = <<>> => last.writes = <<>>
           /\ (\E i \in DOMAIN last.pre.mats : last.pre.mats[i].tag = last.arg)
                 => LET m == last.pre.mats[FirstWithTag(last.pre.mats, last.arg)]
                    IN  last.writes =
                          << <<"material.ambientColor", m.ambientColor>>,
                             <<"material.ambientStrength", m.ambientStrength>>,
                             <<"material.diffuseColor", m.diffuseColor>>,
                             <<"material.specularColor", m.specularColor>>,
                             <<"material.shininess", m.shininess>> >>

C17_Witness ==
    /\ last.op = "SetShaderMaterial"
    /\ Len(last.writes) = 5
    /\ \E i, j \in DOMAIN m_objectMaterials :
          /\ i < j
          /\ m_objectMaterials[i].tag = last.arg
          /\ m_objectMaterials[j].tag = last.arg
          /\ m_objectMaterials[i].shininess # m_objectMaterials[j].shininess
          /\ uniforms["material.shininess"] = m_objectMaterials[i].shininess

(* the draws among the calls of a log, in order *)
Draws(log) == SelectSeq(log, IsDraw)

AuthoredDraws ==
    Draws([k \in DOMAIN RenderCalls |-> RenderCalls[k].call])

(* C18: whichever of the authored files fail to load, PrepareScene and
   RenderScene return, and RenderScene issues the authored draws. *)
C18_NothingIsFatal ==
    /\ ~crashed
    /\ Rendered => Draws(last.calls) = AuthoredDraws

(***************************************************************************)
(*                       Properties of the model matrix                    *)
(***************************************************************************)
ScalePoint(p, v) == << p[1] * v[1], p[2] * v[2], p[3] * v[3] >>

RotateXPoint(p, d) ==
    << p[1], p[2] * CosDeg(d) - p[3] * SinDeg(d), p[2] * SinDeg(d) + p[3] * CosDeg(d) >>

RotateYPoint(p, d) ==
    << p[1] * CosDeg(d) + p[3] * SinDeg(d), p[2], p[3] * CosDeg(d) - p[1] * SinDeg(d) >>

RotateZPoint(p, d) ==
    << p[1] * CosDeg(d) - p[2] * SinDeg(d), p[1] * SinDeg(d) + p[2] * CosDeg(d), p[3] >>

TranslatePoint(p, v) == << p[1] + v[1], p[2] + v[2], p[3] + v[3] >>

(* the image of the point p under the mat4 m *)
Transform(m, p) ==
    << m[1][1] * p[1] + m[1][2] * p[2] + m[1][3] * p[3] + m[1][4],
       m[2][1] * p[1] + m[2][2] * p[2] + m[2][3] * p[3] + m[2][4],
       m[3][1] * p[1] + m[3][2] * p[2] + m[3][3] * p[3] + m[3][4] >>

(* an affine map is fixed by the images of these four points *)
ProbePoints == {<<0, 0, 0>>, <<1, 0, 0>>, <<0, 1, 0>>, <<0, 0, 1>>, <<1, 2, 3>>}

Transformed == last.op = "SetTransformations"

(* C19: the matrix SetTransformations pushes takes a point to the point got by
   scaling it, then rotating it about Z, then about Y, then about X, then
   translating it. *)
C19_ScaleRotateZYXTranslate ==
    Transformed
        => /\ uniforms["model"][4] = <<0, 0, 0, 1>>
           /\ \A p \in ProbePoints :
                Transform(uniforms["model"], p)
                  = TranslatePoint(
                      RotateXPoint(
                        RotateYPoint(
                          RotateZPoint(ScalePoint(p, last.arg.scaleXYZ),
                                       last.arg.ZrotationDegrees),
                          last.arg.YrotationDegrees),
                        last.arg.XrotationDegrees),
                      last.arg.positionXYZ)

C19_Witness ==
    /\ Transformed
    /\ last.arg.scaleXYZ = <<2, 3, 5>>
    /\ last.arg.XrotationDegrees = 90
    /\ last.arg.YrotationDegrees = 0 - 90
    /\ last.arg.ZrotationDegrees = 180
    /\ last.arg.positionXYZ = <<1, 0 - 2, 3>>
    /\ uniforms["model"] # Identity4

IdentityArguments ==
    /\ last.arg.scaleXYZ = <<1, 1, 1>>
    /\ last.arg.XrotationDegrees = 0
    /\ last.arg.YrotationDegrees = 0
    /\ last.arg.ZrotationDegrees = 0
    /\ last.arg.positionXYZ = <<0, 0, 0>>

(* C20: with scale (1,1,1), rotations (0,0,0) and position (0,0,0)
   SetTransformations pushes the identity matrix. *)
C20_IdentityInIdentityOut ==
    (Transformed /\ IdentityArguments) => uniforms["model"] = Identity4

C20_Witness ==
    /\ Transformed /\ IdentityArguments
    /\ "model" \in DOMAIN uniforms
    /\ last.writes = << <<"model", Identity4>> >>

QuarterTurnAboutY ==
    /\ last.arg.scaleXYZ = <<1, 1, 1>>
    /\ last.arg.XrotationDegrees = 0
    /\ last.arg.YrotationDegrees = 90
    /\ last.arg.ZrotationDegrees = 0
    /\ last.arg.positionXYZ = <<0, 0, 0>>

(* C21: with rotations (0,90,0), scale (1,1,1) and position (0,0,0) the matrix
   SetTransformations pushes takes the unit vector +X to the unit vector -Z. *)
C21_QuarterTurnTakesXToMinusZ ==
    (Transformed /\ QuarterTurnAboutY)
        => Transform(uniforms["model"], <<1, 0, 0>>) = <<0, 0, 0 - 1>>

C21_Witness ==
    /\ Transformed /\ QuarterTurnAboutY
    /\ uniforms["model"][3][1] = 0 - 1
    /\ uniforms["model"][1][3] = 1

(***************************************************************************)
(*                    Properties of the authored scene                     *)
(***************************************************************************)
(* SetShaderMaterial was called for a tag that no material of a non-empty
   list carries *)
MaterialMissed ==
    /\ last.op = "SetShaderMaterial"
    /\ Len(last.pre.mats) > 0
    /\ \A i \in DOMAIN last.pre.mats : last.pre.mats[i].tag # last.arg

(* the five values of a record, as SetShaderMaterial pushes them *)
MaterialWrites(m) ==
    << <<"material.ambientColor", m.ambientColor>>,
       <<"material.ambientStrength", m.ambientStrength>>,
       <<"material.diffuseColor", m.diffuseColor>>,
       <<"material.specularColor", m.specularColor>>,
       <<"material.shininess", m.shininess>> >>

(* C22 as stated: when the list is non-empty and holds no material with the
   tag, FindMaterial leaves the caller's record as it was and SetShaderMaterial
   pushes five values that are those of no registered material. *)
C22_PushedValuesOfNoMaterial ==
    MaterialMissed
        => /\ FindMaterialIn(last.pre.mats, last.arg, last.local)
                = [ret |-> TRUE, material |-> last.local]
           /\ Len(last.writes) = 5
           /\ \A i \in DOMAIN last.pre.mats :
                 last.writes # MaterialWrites(last.pre.mats[i])

(* C22 amended: when the list is non-empty and holds no material with the
   tag, FindMaterial reports true and leaves the caller's record as it was, and
   SetShaderMaterial pushes the five values its uninitialised local held when
   the call began, whatever they are (they can be those an earlier call left
   there, copied from a registered material). *)
C22_PushesUntouchedLocal ==
    MaterialMissed
        => /\ FindMaterialIn(last.pre.mats, last.arg, last.local)
                = [ret |-> TRUE, material |-> last.local]
           /\ last.writes = MaterialWrites(last.local)

C22_Witness ==
    /\ MaterialMissed
    /\ last.arg = "stainless1"
    /\ last.local.shininess = NotFound
    /\ uniforms["material.shininess"] = NotFound

(* RenderScene has run on an object that PrepareScene had prepared *)
RenderedPrepared ==
    /\ Rendered
    /\ Positions(last.pre.meshCalls, "LoadPlaneMesh") # {}

(* C23: every material tag RenderScene passes to SetShaderMaterial is the tag
   of a material of the list DefineObjectMaterials has filled. *)
C23_RenderMaterialsRegistered ==
    RenderedPrepared
        => \A k \in DOMAIN RenderCalls :
              RenderCalls[k].call = "SetShaderMaterial"
                 => \E i \in DOMAIN m_objectMaterials :
                       m_objectMaterials[i].tag = RenderCalls[k].tag

(* every authored file has loaded *)
AllLoaded == nSuccess = Len(SceneTextures)

(* C24: after a PrepareScene in which every authored file loads, every texture
   tag RenderScene passes to SetShaderTexture has a slot in 0..15, and the
   texture unit of that slot holds the handle of the slot. *)
C24_RenderTexturesInTable ==
    (AllLoaded /\ RenderedPrepared)
        => \A tag \in RenderTextureTags :
              /\ FindTextureSlot(tag) \in 0 .. (Capacity - 1)
              /\ glUnits[FindTextureSlot(tag)] = FindTextureID(tag)

(* the load call of the shape a draw call draws *)
LoadOf ==
    [DrawPlaneMesh |-> "LoadPlaneMesh", DrawBoxMesh |-> "LoadBoxMesh",
     DrawCylinderMesh |-> "LoadCylinderMesh", DrawConeMesh |-> "LoadConeMesh",
     DrawSphereMesh |-> "LoadSphereMesh",
     DrawHalfSphereMesh |-> "LoadHalfSphereMesh"]

(* C25: for every draw RenderScene issues, PrepareScene had issued the load of
   the same shape. *)
C25_DrawnShapesLoaded ==
    RenderedPrepared
        => \A k \in DOMAIN last.calls :
              IsDraw(last.calls[k])
                 => Positions(last.pre.meshCalls, LoadOf[last.calls[k]]) # {}

(***************************************************************************)
(*                     Further properties of the registry                  *)
(***************************************************************************)
(* The tags the registry is probed with: the two of the direct calls (one of
   them also a scene tag, so it can sit in two slots), the tag of an unfilled
   slot, a tag nothing registers, and the scene tags of an early file that may
   fail to load, of the last slot of the table and of the slot past it. *)
RegistryTags ==
    DirectTags \cup {PlaceholderTag, "unregistered-tag", SceneTextures[2],
                     SceneTextures[Capacity], SceneTextures[Capacity + 1]}

Registering == last.op \in {"CreateGLTexture", "PrepareScene"}

(* C26: FindTextureSlot(tag) is the smallest filled index whose tag is tag;
   and a tag that had a slot before a registration call has the same slot and
   the same handle after it. *)
C26_FirstMatchStable ==
    \A tag \in RegistryTags :
        LET slot == FindTextureSlot(tag)
            before == FindTextureSlotIn(last.pre.tab, last.pre.n, tag)
        IN  /\ slot # NotFound
                  => /\ slot \in Filled
                     /\ m_textureIDs[slot].tag = tag
                     /\ \A j \in 0 .. (slot - 1) : m_textureIDs[j].tag # tag
            /\ (Registering /\ ~crashed /\ before # NotFound)
                  => /\ slot = before
                     /\ FindTextureID(tag)
                          = FindTextureIDIn(last.pre.tab, last.pre.n, tag)

C26_Witness ==
    /\ DirectCreate /\ last.ret /\ last.tag = "ground"
    /\ FindTextureSlotIn(last.pre.tab, last.pre.n, "ground") = 0
    /\ m_textureIDs[m_loadedTextures - 1].tag = "ground"
    /\ FindTextureSlot("ground") = 0

(* C27: in every state and for every tag, FindTextureSlot(tag) is -1 exactly
   if no filled slot carries the tag, and otherwise FindTextureID(tag) is the
   handle stored in the slot FindTextureSlot(tag). *)
C27_HandleAndSlotAgree ==
    \A tag \in RegistryTags :
        LET slot == FindTextureSlot(tag)
        IN  /\ slot = NotFound <=> \A i \in Filled : m_textureIDs[i].tag # tag
            /\ slot # NotFound => FindTextureID(tag) = m_textureIDs[slot].ID

C27_Witness ==
    /\ \E i, j \in Filled :
          /\ i < j
          /\ m_textureIDs[i].tag = "ground" /\ m_textureIDs[j].tag = "ground"
          /\ m_textureIDs[i].ID # m_textureIDs[j].ID
          /\ FindTextureID("ground") = m_textureIDs[i].ID
    /\ FindTextureSlot("extra") = NotFound
    /\ FindTextureID("extra") = NotFound

(* C28: after a CreateGLTexture that returned false, every texture object
   that exists is the handle of a filled slot, and no decoded image is left
   unfreed. *)
C28_FailedRegisterLeaksNothing ==
    (DirectCreate /\ ~last.ret /\ ~crashed)
        => /\ \A t \in DOMAIN glTextures :
                 glTextures[t] # "deleted"
                    => \E i \in Filled : m_textureIDs[i].ID = t
           /\ imageBuffers = 0

(***************************************************************************)
(*                  Properties without a shader manager                    *)
(***************************************************************************)
(* C29: on an object constructed with a NULL shader manager, a call of any of
   the five setters returns having written no uniform and made no call
   through the null pointer, whatever the registry holds. *)
C29_NullShaderSettersSafe ==
    (last.op \in Setters /\ m_pShaderManager = "null")
        => /\ ~crashed
           /\ last.writes = <<>>
           /\ last.nullCalls = 0

====
